---- MODULE Spec2Model ----
(***************************************************************************)
(* Test-plan import backend (backend/src/api): the row normaliser of       *)
(* testplan_import.py, the import orchestrator and the two read queries of *)
(* routes_testplan.py, over the store declared in models.py.               *)
(*                                                                         *)
(* Text is a tuple of one-character strings (<<"a", "b">> is "ab"), so     *)
(* that strip(), lower(), isalnum() and LIKE are computed.  Python's None  *)
(* and SQL's NULL are the value None, which is no text.                    *)
(*                                                                         *)
(* The store is the MySQL/InnoDB database db.py connects to: constraints   *)
(* are checked when a row is flushed, a session reads what is committed    *)
(* and what it has flushed itself, and each query runs against one         *)
(* snapshot.  Strings are compared exactly.                                *)
(***************************************************************************)
EXTENDS Integers, Sequences, FiniteSets, TLC

VARIABLES
    suites,      \* committed rows of table suites
    test_cases,  \* committed rows of table test_cases
    next_id,     \* the AUTO_INCREMENT counters of the two tables
    now,         \* the clock read by datetime.utcnow
    req,         \* per request: position in import_testplan, locals, session
    resp,        \* the response of a query, held until the next step
    raw_rows,    \* the argument of a direct call of normalize_rows
    norm         \* what that call returned

vars == <<suites, test_cases, next_id, now, req, resp, raw_rows, norm>>

None == <<"None">>

\* None where the code expects an Optional[List[str]]: no list of texts.
NoList == <<None>>

\* ------------------------------------------------------------------ text

Range(s) == {s[i] : i \in DOMAIN s}

Min(a, b) == IF a < b THEN a ELSE b

WhitespaceChars == {" ", "\t", "\n", "\r"}

UpperToLower ==
    [A |-> "a", B |-> "b", C |-> "c", D |-> "d", E |-> "e", F |-> "f",
     G |-> "g", H |-> "h", I |-> "i", J |-> "j", K |-> "k", L |-> "l",
     M |-> "m", N |-> "n", O |-> "o", P |-> "p", Q |-> "q", R |-> "r",
     S |-> "s", T |-> "t", U |-> "u", V |-> "v", W |-> "w", X |-> "x",
     Y |-> "y", Z |-> "z"]

Digits == {"0", "1", "2", "3", "4", "5", "6", "7", "8", "9"}

isspace(ch) == ch \in WhitespaceChars

lower_ch(ch) == IF ch \in DOMAIN UpperToLower THEN UpperToLower[ch] ELSE ch

isalnum(ch) ==
    \/ ch \in DOMAIN UpperToLower
    \/ ch \in Range(UpperToLower)
    \/ ch \in Digits

lower(s) == [i \in DOMAIN s |-> lower_ch(s[i])]

RECURSIVE lstrip(_)
lstrip(s) ==
    IF s # <<>> /\ isspace(Head(s)) THEN lstrip(Tail(s)) ELSE s

RECURSIVE rstrip(_)
rstrip(s) ==
    IF s # <<>> /\ isspace(s[Len(s)]) THEN rstrip(SubSeq(s, 1, Len(s) - 1)) ELSE s

strip(s) == rstrip(lstrip(s))

\* "".join(chars): the text as one string, used for dictionary keys.
RECURSIVE Join(_)
Join(s) == IF s = <<>> THEN "" ELSE Head(s) \o Join(Tail(s))

\* s.replace(old, "\n") for a one- or two-character old.
RECURSIVE replace_nl(_, _)
replace_nl(s, old) ==
    IF s = <<>> THEN <<>>
    ELSE IF Len(s) >= Len(old) /\ SubSeq(s, 1, Len(old)) = old
         THEN <<"\n">> \o replace_nl(SubSeq(s, Len(old) + 1, Len(s)), old)
         ELSE <<Head(s)>> \o replace_nl(Tail(s), old)

\* s.replace(old, new) for single characters.
replace_ch(s, old, new) == [i \in DOMAIN s |-> IF s[i] = old THEN new ELSE s[i]]

\* s.split(sep) for a one-character sep: always at least one piece.
RECURSIVE split(_, _)
split(s, sep) ==
    IF \A i \in DOMAIN s : s[i] # sep THEN <<s>>
    ELSE LET p == CHOOSE i \in DOMAIN s : s[i] = sep /\ \A j \in 1..(i - 1) : s[j] # sep
         IN  <<SubSeq(s, 1, p - 1)>> \o split(SubSeq(s, p + 1, Len(s)), sep)

\* -------------------------------------------------- testplan_import.py

STANDARD_FIELDS ==
    {"suite_name", "case_id", "title", "description", "priority", "category",
     "subcategory", "preconditions", "steps", "expected_result", "tags"}

\* _norm_key without its lower().
norm_key_keeps_case(s) == Join(SelectSeq(strip(s), isalnum))

norm_key(s) == Join(SelectSeq(lower(strip(s)), isalnum))

HEADER_SYNONYMS ==
    [suitename |-> "suite_name", suite |-> "suite_name", suiteid |-> "suite_name",
     caseid |-> "case_id", id |-> "case_id", testcaseid |-> "case_id", tcid |-> "case_id",
     title |-> "title", name |-> "title", testcasename |-> "title",
     description |-> "description", descriptionsteps |-> "steps", steps |-> "steps",
     procedure |-> "steps",
     expected |-> "expected_result", expectedresult |-> "expected_result",
     result |-> "expected_result",
     priority |-> "priority", prio |-> "priority",
     category |-> "category", testarea |-> "category", area |-> "category",
     subcategory |-> "subcategory", subcat |-> "subcategory",
     preconditions |-> "preconditions", precondition |-> "preconditions",
     prerequisites |-> "preconditions",
     tags |-> "tags", tag |-> "tags"]

\* _HEADER_SYNONYMS.get(nk, nk)
resolve_header(k) ==
    LET nk == norm_key(k)
    IN  IF nk \in DOMAIN HEADER_SYNONYMS THEN HEADER_SYNONYMS[nk] ELSE nk

\* A dict is the sequence of its <<key, value>> items in insertion order.
dict_keys(d) == {d[i][1] : i \in DOMAIN d}

dict_get(d, k) ==
    IF k \in dict_keys(d) THEN d[CHOOSE i \in DOMAIN d : d[i][1] = k][2] ELSE None

dict_set(d, k, v) ==
    IF k \in dict_keys(d)
    THEN [i \in DOMAIN d |-> IF d[i][1] = k THEN <<k, v>> ELSE d[i]]
    ELSE Append(d, <<k, v>>)

coerce_str(v) ==
    IF v = None THEN None
    ELSE LET s == strip(v) IN IF s # <<>> THEN s ELSE None

\* a or b, for an Optional[str] a that is never the empty string
or_else(a, b) == IF a # None /\ a # <<>> THEN a ELSE b

nonempty_or_none(parts) ==
    LET kept == SelectSeq(parts, LAMBDA p : p # <<>>)
    IN  IF kept # <<>> THEN kept ELSE NoList

\* _split_multiline_steps without the two replace() calls.
split_multiline_steps_lf_only(value) ==
    IF value = None THEN NoList
    ELSE LET v == strip(value)
         IN  IF v = <<>> THEN NoList
             ELSE LET lines == split(v, "\n")
                  IN  nonempty_or_none([i \in DOMAIN lines |-> strip(lines[i])])

split_multiline_steps(value) ==
    IF value = None THEN NoList
    ELSE LET v == strip(value)
         IN  IF v = <<>> THEN NoList
             ELSE LET lf    == replace_ch(replace_nl(v, <<"\r", "\n">>), "\r", "\n")
                      lines == split(lf, "\n")
                  IN  nonempty_or_none([i \in DOMAIN lines |-> strip(lines[i])])

split_tags(value) ==
    IF value = None THEN NoList
    ELSE LET v == strip(value)
         IN  IF v = <<>> THEN NoList
             ELSE LET raw == split(replace_ch(v, ";", ","), ",")
                  IN  nonempty_or_none([i \in DOMAIN raw |-> strip(raw[i])])

\* _map_headers: column index (from 0) -> standard field, for the columns
\* whose normalized header is known.
map_headers(headers) ==
    LET nk(idx) == norm_key(headers[idx + 1])
        known   == {idx \in 0..(Len(headers) - 1) :
                       nk(idx) \in DOMAIN HEADER_SYNONYMS \/ nk(idx) \in STANDARD_FIELDS}
    IN  [idx \in known |->
            IF nk(idx) \in DOMAIN HEADER_SYNONYMS THEN HEADER_SYNONYMS[nk(idx)]
            ELSE nk(idx)]

\* The loop of lines 184-190: later items overwrite earlier ones that resolve
\* to the same key; items whose key is None are skipped.
RECURSIVE build_key_to_val(_, _)
build_key_to_val(items, key_to_val) ==
    IF items = <<>> THEN key_to_val
    ELSE LET k == Head(items)[1]
             v == Head(items)[2]
         IN  IF k = None THEN build_key_to_val(Tail(items), key_to_val)
             ELSE build_key_to_val(Tail(items), dict_set(key_to_val, resolve_header(k), v))

row_title(key_to_val) ==
    or_else(coerce_str(dict_get(key_to_val, "title")),
            or_else(coerce_str(dict_get(key_to_val, "name")), <<>>))

NormalizedRow(key_to_val) ==
    [suite_name      |-> or_else(coerce_str(dict_get(key_to_val, "suite_name")),
                                 <<"D", "e", "f", "a", "u", "l", "t">>),
     case_id         |-> coerce_str(dict_get(key_to_val, "case_id")),
     title           |-> row_title(key_to_val),
     description     |-> coerce_str(dict_get(key_to_val, "description")),
     priority        |-> coerce_str(dict_get(key_to_val, "priority")),
     category        |-> coerce_str(dict_get(key_to_val, "category")),
     subcategory     |-> coerce_str(dict_get(key_to_val, "subcategory")),
     preconditions   |-> coerce_str(dict_get(key_to_val, "preconditions")),
     steps           |-> IF dict_get(key_to_val, "steps") # None
                         THEN split_multiline_steps(coerce_str(dict_get(key_to_val, "steps")))
                         ELSE NoList,
     expected_result |-> coerce_str(dict_get(key_to_val, "expected_result")),
     tags            |-> IF dict_get(key_to_val, "tags") # None
                         THEN split_tags(coerce_str(dict_get(key_to_val, "tags")))
                         ELSE NoList]

\* The warning with enumerate's default start, 0.
missing_title_warning_from_zero(i) ==
    "Row " \o ToString(i - 1) \o ": missing title/name; skipped."

missing_title_warning(i) == "Row " \o ToString(i) \o ": missing title/name; skipped."

\* The body of the for loop of normalize_rows for record i.
RECURSIVE normalize_from(_, _, _, _)
normalize_from(rows, i, normalized, warnings) ==
    IF i > Len(rows) THEN [rows |-> normalized, warnings |-> warnings]
    ELSE LET key_to_val == build_key_to_val(rows[i], <<>>)
         IN  IF row_title(key_to_val) = <<>>
             THEN normalize_from(rows, i + 1, normalized,
                                 Append(warnings, missing_title_warning(i)))
             ELSE normalize_from(rows, i + 1,
                                 Append(normalized, NormalizedRow(key_to_val)), warnings)

normalize_rows(rows) == normalize_from(rows, 1, <<>>, <<>>)

\* A parser's outcome: the records, or the HTTPException it raised.
Parsed(rows) == [status |-> 200, rows |-> rows]

HTTPException(status_code) == [status |-> status_code, rows |-> <<>>]

\* csv.DictReader's record for one data row: dict(zip(fieldnames, row)), the
\* cells beyond the header under restkey None, the missing cells as None.
RECURSIVE zip_dict(_, _, _)
zip_dict(fieldnames, row, d) ==
    IF fieldnames = <<>> \/ row = <<>> THEN d
    ELSE zip_dict(Tail(fieldnames), Tail(row), dict_set(d, Head(fieldnames), Head(row)))

RECURSIVE fill_missing(_, _)
fill_missing(keys, d) ==
    IF keys = <<>> THEN d
    ELSE fill_missing(Tail(keys), dict_set(d, Head(keys), None))

DictReader_row(fieldnames, row) ==
    LET d  == zip_dict(fieldnames, row, <<>>)
        lf == Len(fieldnames)
        lr == Len(row)
    IN  IF lf < lr THEN dict_set(d, None, SubSeq(row, lf + 1, lr))
        ELSE IF lf > lr THEN fill_missing(SubSeq(fieldnames, lr + 1, lf), d)
        ELSE d

\* The file as the csv module reads it: a sequence of lines, each a sequence
\* of cells; a blank line is the empty sequence.  DictReader takes the first
\* line as fieldnames and skips blank data lines.
parse_csv(utf8_ok, table, max_rows) ==
    IF ~utf8_ok THEN HTTPException(400)
    ELSE IF table = <<>> \/ table[1] = <<>> THEN HTTPException(400)
    ELSE LET data == SelectSeq(Tail(table), LAMBDA row : row # <<>>)
         IN  IF Len(data) > max_rows THEN HTTPException(413)
             ELSE Parsed([i \in DOMAIN data |-> DictReader_row(table[1], data[i])])

\* The first worksheet as iter_rows(values_only=True) yields it: a sequence
\* of rows of cells, a cell being a text or None.
xlsx_headers(headers_row) ==
    [c \in DOMAIN headers_row |->
        IF headers_row[c] # None THEN strip(headers_row[c]) ELSE <<>>]

RECURSIVE xlsx_rec(_, _, _, _)
xlsx_rec(headers, row, c, rec) ==
    IF c > Len(headers) THEN rec
    ELSE IF headers[c] = <<>> THEN xlsx_rec(headers, row, c + 1, rec)
    ELSE xlsx_rec(headers, row, c + 1,
                  dict_set(rec, headers[c], IF c <= Len(row) THEN row[c] ELSE None))

xlsx_blank(rec) ==
    \A i \in DOMAIN rec : rec[i][2] = None \/ strip(rec[i][2]) = <<>>

\* parse_xlsx with `idx >= max_rows` as its size test.
parse_xlsx_cap_exclusive(table, max_rows) ==
    IF table = <<>> THEN HTTPException(400)
    ELSE LET headers == xlsx_headers(table[1])
             data    == Tail(table)
             recs    == [i \in DOMAIN data |-> xlsx_rec(headers, data[i], 1, <<>>)]
         IN  IF \A c \in DOMAIN headers : headers[c] = <<>> THEN HTTPException(400)
             ELSE IF Len(data) >= max_rows THEN HTTPException(413)
             ELSE Parsed(SelectSeq(recs, LAMBDA rec : ~xlsx_blank(rec)))

parse_xlsx(table, max_rows) ==
    IF table = <<>> THEN HTTPException(400)
    ELSE LET headers == xlsx_headers(table[1])
             data    == Tail(table)
             recs    == [i \in DOMAIN data |-> xlsx_rec(headers, data[i], 1, <<>>)]
         IN  IF \A c \in DOMAIN headers : headers[c] = <<>> THEN HTTPException(400)
             ELSE IF Len(data) > max_rows THEN HTTPException(413)
             ELSE Parsed(SelectSeq(recs, LAMBDA rec : ~xlsx_blank(rec)))

\* json.dumps(value, ensure_ascii=False) of a list of texts.
json_escape_ch(ch) ==
    CASE ch = "\"" -> <<"\\", "\"">>
      [] ch = "\\" -> <<"\\", "\\">>
      [] ch = "\n" -> <<"\\", "n">>
      [] ch = "\r" -> <<"\\", "r">>
      [] ch = "\t" -> <<"\\", "t">>
      [] OTHER     -> <<ch>>

RECURSIVE json_string_body(_)
json_string_body(s) ==
    IF s = <<>> THEN <<>> ELSE json_escape_ch(Head(s)) \o json_string_body(Tail(s))

RECURSIVE json_items(_)
json_items(list) ==
    IF list = <<>> THEN <<>>
    ELSE <<"\"">> \o json_string_body(Head(list)) \o <<"\"">>
         \o (IF Len(list) > 1 THEN <<",", " ">> ELSE <<>>) \o json_items(Tail(list))

dumps_json_text(value) ==
    IF value = NoList THEN None ELSE <<"[">> \o json_items(value) \o <<"]">>

\* ------------------------------------------------------------ the store

\* models.py: suites(id, name UNIQUE, created_at) and test_cases(id, suite_id
\* FK, case_id, ..., UNIQUE(suite_id, case_id)).  A NULL case_id conflicts with
\* nothing.  Names and case ids are compared exactly.
Suite(id, name, created_at) == [id |-> id, name |-> name, created_at |-> created_at]

TestCase(id, suite_id, row, created_at) ==
    [id              |-> id,
     suite_id        |-> suite_id,
     case_id         |-> row.case_id,
     title           |-> row.title,
     description     |-> row.description,
     priority        |-> row.priority,
     category        |-> row.category,
     subcategory     |-> row.subcategory,
     preconditions   |-> row.preconditions,
     steps           |-> dumps_json_text(row.steps),
     expected_result |-> row.expected_result,
     tags            |-> dumps_json_text(row.tags),
     created_at      |-> created_at]

Reqs == {1, 2}

\* The last reading of the clock
MaxTime == 1

\* The pages and page sizes asked for
MaxPage == 3

MaxPageSize == 2

NoResponse == [kind |-> "none"]

NotCalled == [returned |-> FALSE, rows |-> <<>>, warnings |-> <<>>]

NoTx == [suites |-> {}, tcs |-> {}]

Store == [suites |-> suites, test_cases |-> test_cases]

\* What request r's session reads: the committed rows and the rows its own
\* open transaction has flushed.
visible_suites(r) == suites \cup req[r].tx.suites

visible_tcs(r) == test_cases \cup req[r].tx.tcs

\* select(Suite).where(Suite.name == name): the matching rows, at most one
select_suite(rows, name) == {s \in rows : s.name = name}

\* scalar_one() / the row of a non-empty scalar_one_or_none()
scalar_one(rows) == CHOOSE s \in rows : TRUE

\* An INSERT waits on the lock of a conflicting row another open transaction
\* has written, until that transaction commits or rolls back.  (Two requests
\* waiting on each other end with the store aborting one: StoreFailure.)
suite_insert_waits(r, name) ==
    \E o \in Reqs \ {r} : \E s \in req[o].tx.suites : s.name = name

tc_insert_waits(r, suite_id, case_id) ==
    /\ case_id # None
    /\ \E o \in Reqs \ {r} : \E t \in req[o].tx.tcs :
           t.suite_id = suite_id /\ t.case_id = case_id

\* unique=True on Suite.name
suite_conflict(r, name) == \E s \in visible_suites(r) : s.name = name

\* uq_suite_case_id
uq_suite_case_id_violated(r, suite_id, case_id) ==
    /\ case_id # None
    /\ \E t \in visible_tcs(r) : t.suite_id = suite_id /\ t.case_id = case_id

\* ForeignKey("suites.id"): the parent row must exist.  A Suite whose INSERT
\* was rolled back keeps its id attribute, which then names no row.
fk_violated(r, suite_id) == \A s \in visible_suites(r) : s.id # suite_id

tc_integrity_error(r, suite_id, case_id) ==
    fk_violated(r, suite_id) \/ uq_suite_case_id_violated(r, suite_id, case_id)

\* The constraint the IntegrityError names
tc_error(r, suite_id, case_id) ==
    IF fk_violated(r, suite_id) THEN "foreign key" ELSE "uq_suite_case_id"

\* Session.rollback(): the whole open transaction is undone, every row the
\* session flushed since its last commit included.
rollback(tx) == NoTx

\* Session.close() in get_db's finally: an open transaction is rolled back.
close(tx) == NoTx

\* ----------------------------------------------------- routes_testplan.py

MAX_UPLOAD_BYTES == 10 * 1024 * 1024

endswith(s, suffix) ==
    Len(s) >= Len(suffix) /\ SubSeq(s, Len(s) - Len(suffix) + 1, Len(s)) = suffix

require_supported_filename(filename) ==
    IF endswith(lower(filename), <<".", "c", "s", "v">>) THEN "csv"
    ELSE IF endswith(lower(filename), <<".", "x", "l", "s", "x">>) THEN "xlsx"
    ELSE "HTTP 400"

\* parse_upload without the byte cap of lines 76-77.
parse_upload_no_byte_cap(u, max_rows) ==
    LET fmt == require_supported_filename(u.filename)
    IN  IF fmt = "HTTP 400" THEN HTTPException(400)
        ELSE IF u.size = 0 THEN HTTPException(400)
        ELSE IF fmt = "csv" THEN parse_csv(u.utf8, u.table, max_rows)
        ELSE parse_xlsx(u.table, max_rows)

\* Lines 71-82: the checks before the first store operation, and the parse.
parse_upload(u, max_rows) ==
    LET fmt == require_supported_filename(u.filename)
    IN  IF fmt = "HTTP 400" THEN HTTPException(400)
        ELSE IF u.size = 0 THEN HTTPException(400)
        ELSE IF u.size > MAX_UPLOAD_BYTES THEN HTTPException(413)
        ELSE IF fmt = "csv" THEN parse_csv(u.utf8, u.table, max_rows)
        ELSE parse_xlsx(u.table, max_rows)

Idle ==
    [pc |-> "idle", upload |-> None, status |-> 0, normalized |-> <<>>,
     warnings |-> <<>>, idx |-> 0, suite_cache |-> <<>>, suite |-> 0,
     suites_created |-> 0, testcases_created |-> 0, duplicates_skipped |-> 0,
     tx |-> NoTx, response |-> None,
     exc |-> "", log |-> <<>>, overlaps |-> FALSE, before |-> None, after |-> None]

\* An exception leaves import_testplan: the locals are gone, get_db closes
\* the session, the client gets the status.  Kept for the record: the store
\* as it was when the request arrived and as the request left it.
Raised(q, pc, status, exc, upload, before) ==
    [Idle EXCEPT !.pc = pc, !.status = status, !.exc = exc, !.tx = close(q.tx),
                 !.upload = upload, !.before = before, !.after = Store]

Finished(r) == req[r].pc \in {"done", "rejected", "failed"}

InLoop(r) == req[r].pc \in {"row", "new_suite", "tc", "commit"}

row_at(r) == req[r].normalized[req[r].idx]

after_row(q) == IF q.idx >= Len(q.normalized) THEN "commit" ELSE "row"

\* max_rows of parse_csv / parse_xlsx (50_000 in the source), scaled down
MaxRows == 12

\* len(normalized[:10])
PreviewLimit == 10

\* Lines 71-91: request r arrives with upload u.  With exclusive, requests
\* are served one at a time; without, they overlap.
Receive(r, u, exclusive) ==
    /\ req[r].pc = "idle"
    /\ \A o \in Reqs : o < r => req[o].pc # "idle"
    /\ exclusive => \A o \in Reqs \ {r} : ~InLoop(o)
    /\ LET parsed == parse_upload(u, MaxRows)
           out    == normalize_rows(parsed.rows)
       IN  req' = [req EXCEPT ![r] =
                IF parsed.status # 200
                THEN Raised(@, "rejected", parsed.status, "HTTPException", u, Store)
                ELSE [@ EXCEPT !.pc = IF out.rows = <<>> THEN "commit" ELSE "row",
                               !.upload = u, !.before = Store,
                               !.overlaps = \E o \in Reqs \ {r} : InLoop(o),
                               !.normalized = out.rows, !.warnings = out.warnings,
                               !.idx = 1]]
    /\ resp' = NoResponse
    /\ UNCHANGED <<suites, test_cases, next_id, now, raw_rows, norm>>

\* Lines 94-97 and 106: the cache, then the SELECT by name.
ResolveSuite(r) ==
    /\ req[r].pc = "row"
    /\ LET q     == req[r]
           name  == row_at(r).suite_name
           found == select_suite(visible_suites(r), name)
       IN  req' = [req EXCEPT ![r] =
                IF name \in dict_keys(q.suite_cache)
                THEN [@ EXCEPT !.pc = "tc", !.suite = dict_get(q.suite_cache, name)]
                ELSE IF found # {}
                THEN [@ EXCEPT !.pc = "tc", !.suite = scalar_one(found).id,
                               !.suite_cache = dict_set(@, name, scalar_one(found).id)]
                ELSE [@ EXCEPT !.pc = "new_suite"]]
    /\ resp' = NoResponse
    /\ UNCHANGED <<suites, test_cases, next_id, now, raw_rows, norm>>

\* Lines 98-106: INSERT the new suite; on IntegrityError roll back and
\* re-fetch.
FlushSuite(r) ==
    /\ req[r].pc = "new_suite"
    /\ LET q    == req[r]
           name == row_at(r).suite_name
           again == select_suite(suites, name)
       IN  /\ ~suite_insert_waits(r, name)
           /\ IF suite_conflict(r, name)
              THEN /\ req' = [req EXCEPT ![r] =
                        IF again = {}
                        THEN Raised(@, "failed", 500, "NoResultFound", None, q.before)
                        ELSE [@ EXCEPT !.pc = "tc", !.tx = rollback(@),
                                       !.suite = scalar_one(again).id,
                                       !.suite_cache = dict_set(@, name, scalar_one(again).id)]]
                   /\ UNCHANGED next_id
              ELSE /\ req' = [req EXCEPT ![r] =
                        [@ EXCEPT !.pc = "tc",
                                  !.tx.suites = @ \cup {Suite(next_id.suites, name, now)},
                                  !.suites_created = @ + 1,
                                  !.suite = next_id.suites,
                                  !.suite_cache = dict_set(@, name, next_id.suites)]]
                   /\ next_id' = [next_id EXCEPT !.suites = @ + 1]
    /\ resp' = NoResponse
    /\ UNCHANGED <<suites, test_cases, now, raw_rows, norm>>

\* FlushTestCase without the try/except of lines 122-128: the IntegrityError
\* leaves import_testplan.
FlushTestCase_uncaught(r) ==
    /\ req[r].pc = "tc"
    /\ LET q   == req[r]
           row == row_at(r)
       IN  /\ ~tc_insert_waits(r, q.suite, row.case_id)
           /\ IF tc_integrity_error(r, q.suite, row.case_id)
              THEN /\ req' = [req EXCEPT ![r] =
                        Raised(@, "failed", 500, "IntegrityError", None, q.before)]
                   /\ UNCHANGED next_id
              ELSE /\ req' = [req EXCEPT ![r] =
                        [@ EXCEPT !.pc = after_row(q), !.idx = @ + 1,
                                  !.tx.tcs = @ \cup {TestCase(next_id.test_cases, q.suite, row, now)},
                                  !.testcases_created = @ + 1,
                                  !.log = Append(@, "inserted")]]
                   /\ next_id' = [next_id EXCEPT !.test_cases = @ + 1]
    /\ resp' = NoResponse
    /\ UNCHANGED <<suites, test_cases, now, raw_rows, norm>>

\* Lines 108-128: INSERT the test case; on IntegrityError roll back and count
\* a duplicate.
FlushTestCase(r) ==
    /\ req[r].pc = "tc"
    /\ LET q   == req[r]
           row == row_at(r)
       IN  /\ ~tc_insert_waits(r, q.suite, row.case_id)
           /\ IF tc_integrity_error(r, q.suite, row.case_id)
              THEN /\ req' = [req EXCEPT ![r] =
                        [@ EXCEPT !.pc = after_row(q), !.idx = @ + 1,
                                  !.tx = rollback(@),
                                  !.duplicates_skipped = @ + 1,
                                  !.log = Append(@, tc_error(r, q.suite, row.case_id))]]
                   /\ UNCHANGED next_id
              ELSE /\ req' = [req EXCEPT ![r] =
                        [@ EXCEPT !.pc = after_row(q), !.idx = @ + 1,
                                  !.tx.tcs = @ \cup {TestCase(next_id.test_cases, q.suite, row, now)},
                                  !.testcases_created = @ + 1,
                                  !.log = Append(@, "inserted")]]
                   /\ next_id' = [next_id EXCEPT !.test_cases = @ + 1]
    /\ resp' = NoResponse
    /\ UNCHANGED <<suites, test_cases, now, raw_rows, norm>>

\* The response with normalized[-10:] as its preview.
ImportTestPlanResponse_last_rows(q) ==
    [suites_created     |-> q.suites_created,
     testcases_created  |-> q.testcases_created,
     duplicates_skipped |-> q.duplicates_skipped,
     warnings           |-> q.warnings,
     preview            |-> SubSeq(q.normalized,
                                   Len(q.normalized) - Min(PreviewLimit, Len(q.normalized)) + 1,
                                   Len(q.normalized))]

ImportTestPlanResponse(q) ==
    [suites_created     |-> q.suites_created,
     testcases_created  |-> q.testcases_created,
     duplicates_skipped |-> q.duplicates_skipped,
     warnings           |-> q.warnings,
     preview            |-> SubSeq(q.normalized, 1, Min(PreviewLimit, Len(q.normalized)))]

\* Lines 130-139: commit what the open transaction holds and answer.
Commit(r) ==
    /\ req[r].pc = "commit"
    /\ suites' = suites \cup req[r].tx.suites
    /\ test_cases' = test_cases \cup req[r].tx.tcs
    /\ req' = [req EXCEPT ![r] =
            [@ EXCEPT !.pc = "done", !.status = 200, !.tx = NoTx,
                      !.response = ImportTestPlanResponse(req[r]),
                      !.after = [suites |-> suites', test_cases |-> test_cases']]]
    /\ resp' = NoResponse
    /\ UNCHANGED <<next_id, now, raw_rows, norm>>

\* StoreFailure with a get_db that commits the session before closing it.
StoreFailure_commit_on_close(r) ==
    /\ InLoop(r)
    /\ suites' = suites \cup req[r].tx.suites
    /\ test_cases' = test_cases \cup req[r].tx.tcs
    /\ req' = [req EXCEPT ![r] =
            [Raised(@, "failed", 500, "OperationalError", None, @.before)
                EXCEPT !.after = [suites |-> suites', test_cases |-> test_cases']]]
    /\ resp' = NoResponse
    /\ UNCHANGED <<next_id, now, raw_rows, norm>>

\* A store operation of the loop or the commit raises something other than
\* IntegrityError (connection loss, lock timeout): the exception leaves
\* import_testplan and get_db closes the session.
StoreFailure(r) ==
    /\ InLoop(r)
    /\ req' = [req EXCEPT ![r] = Raised(@, "failed", 500, "OperationalError", None, @.before)]
    /\ resp' = NoResponse
    /\ UNCHANGED <<suites, test_cases, next_id, now, raw_rows, norm>>

\* ------------------------------------------------------------ the queries

\* ORDER BY created_at DESC over a set of rows: every order the store may
\* return, rows with equal created_at in any order.
RECURSIVE orders_created_desc(_)
orders_created_desc(rows) ==
    IF rows = {} THEN {<<>>}
    ELSE UNION {{<<m>> \o rest : rest \in orders_created_desc(rows \ {m})} :
                    m \in {x \in rows : \A y \in rows : x.created_at >= y.created_at}}

\* count(TestCase.id) of the LEFT OUTER JOIN, grouped by suite
testcases_count(s) == Cardinality({t \in test_cases : t.suite_id = s.id})

SuiteListItem(s) ==
    [id |-> s.id, name |-> s.name, created_at |-> s.created_at,
     testcases_count |-> testcases_count(s)]

\* list_suites with the count taken over an unconditioned join.
ListSuites_cross_join ==
    /\ resp = NoResponse
    /\ \E rows \in orders_created_desc(suites) :
           resp' = [kind |-> "suites",
                    suites |-> [i \in DOMAIN rows |->
                        [SuiteListItem(rows[i]) EXCEPT !.testcases_count = Cardinality(test_cases)]]]
    /\ UNCHANGED <<suites, test_cases, next_id, now, req, raw_rows, norm>>

\* Lines 149-169
ListSuites ==
    /\ resp = NoResponse
    /\ \E rows \in orders_created_desc(suites) :
           resp' = [kind |-> "suites",
                    suites |-> [i \in DOMAIN rows |-> SuiteListItem(rows[i])]]
    /\ UNCHANGED <<suites, test_cases, next_id, now, req, raw_rows, norm>>

\* text LIKE pattern: % is any run of characters, _ any one character
RECURSIVE like(_, _)
like(text, pattern) ==
    IF pattern = <<>> THEN text = <<>>
    ELSE IF Head(pattern) = "%"
         THEN like(text, Tail(pattern)) \/ (text # <<>> /\ like(Tail(text), pattern))
         ELSE /\ text # <<>>
              /\ Head(pattern) = "_" \/ Head(pattern) = Head(text)
              /\ like(Tail(text), Tail(pattern))

\* column.ilike(pattern): lower(column) LIKE lower(pattern), never true of NULL
ilike(column, pattern) == column # None /\ like(lower(column), lower(pattern))

\* Lines 196-209: the WHERE clause.  An absent or empty filter is not applied.
tc_matches(t, suite_id, category, priority, search) ==
    /\ t.suite_id = suite_id
    /\ (category # None /\ category # <<>>) => t.category = category
    /\ (priority # None /\ priority # <<>>) => t.priority = priority
    /\ (search # None /\ search # <<>>) =>
           LET pattern == <<"%">> \o search \o <<"%">>
           IN  \/ ilike(t.title, pattern)
               \/ ilike(t.description, pattern)
               \/ ilike(t.case_id, pattern)

\* ORDER BY created_at DESC, id DESC
RECURSIVE order_created_id_desc(_)
order_created_id_desc(rows) ==
    IF rows = {} THEN <<>>
    ELSE LET m == CHOOSE x \in rows : \A y \in rows :
                      \/ x.created_at > y.created_at
                      \/ x.created_at = y.created_at /\ x.id >= y.id
         IN  <<m>> \o order_created_id_desc(rows \ {m})

\* OFFSET offset LIMIT limit
offset_limit(rows, offset, limit) ==
    SubSeq(rows, offset + 1, Min(offset + limit, Len(rows)))

TestCaseListItem(t) ==
    [id |-> t.id, suite_id |-> t.suite_id, case_id |-> t.case_id, title |-> t.title,
     priority |-> t.priority, category |-> t.category, subcategory |-> t.subcategory,
     created_at |-> t.created_at]

\* The page of list_suite_testcases with OFFSET page * page_size.
page_items_offset_from_zero(matching, page, page_size) ==
    LET rows == offset_limit(order_created_id_desc(matching), page * page_size, page_size)
    IN  [i \in DOMAIN rows |-> TestCaseListItem(rows[i])]

\* Lines 213-235
page_items(matching, page, page_size) ==
    LET rows == offset_limit(order_created_id_desc(matching), (page - 1) * page_size, page_size)
    IN  [i \in DOMAIN rows |-> TestCaseListItem(rows[i])]

\* Lines 182-240, for a page >= 1 and a page_size in 1..200
ListSuiteTestcases(suite_id, page, page_size, category, priority, search) ==
    /\ resp = NoResponse
    /\ LET matching == {t \in test_cases :
                           tc_matches(t, suite_id, category, priority, search)}
           filters  == [suite_id |-> suite_id, category |-> category,
                        priority |-> priority, search |-> search]
       IN  resp' = IF \A s \in suites : s.id # suite_id
                   THEN [kind |-> "page", status |-> 404, items |-> <<>>, total |-> 0,
                         page |-> page, page_size |-> page_size, filters |-> filters]
                   ELSE [kind |-> "page", status |-> 200,
                         items |-> page_items(matching, page, page_size),
                         total |-> Cardinality(matching),
                         page |-> page, page_size |-> page_size, filters |-> filters]
    /\ UNCHANGED <<suites, test_cases, next_id, now, req, raw_rows, norm>>

\* datetime.utcnow moves on.
Tick ==
    /\ now < MaxTime
    /\ now' = now + 1
    /\ resp' = NoResponse
    /\ UNCHANGED <<suites, test_cases, next_id, req, raw_rows, norm>>

\* ------------------------------------------------------------ the inputs

\* The longest table of data rows enumerated in full
MaxLen == 2

SeqsUpTo(S, n) == UNION {[1..k -> S] : k \in 0..n}

Repeat(x, n) == [i \in 1..n |-> x]

ImportHeader == <<<<"S", "u", "i", "t", "e">>, <<"I", "D">>, <<"T", "i", "t", "l", "e">>>>

\* suite, case id, title: two cases of suite A, one of suite B, a case
\* without an id, and a row without a title.
ImportRows ==
    {<<<<"A">>, <<"c", "1">>, <<"t">>>>,
     <<<<"A">>, <<"c", "2">>, <<"t">>>>,
     <<<<"B">>, <<"c", "1">>, <<"t">>>>,
     <<<<"A">>, <<>>, <<"t">>>>,
     <<<<"A">>, <<"c", "1">>, <<" ">>>>}

Table(rows) == <<ImportHeader>> \o rows

Upload(filename, size, utf8, table) ==
    [filename |-> filename, size |-> size, utf8 |-> utf8, table |-> table]

CsvName == <<"p", ".", "c", "s", "v">>

XlsxName == <<"P", ".", "X", "L", "S", "X">>

OneRow == Table(<<<<<<"A">>, <<"c", "1">>, <<"t">>>>>>)

\* A row with a cell beyond the header, a blank line, and a row that stops
\* after its first cell.
RaggedRows ==
    <<<<<<"B">>, <<"c", "2">>, <<"t">>, <<"x">>>>, <<>>, <<<<"B">>>>>>

\* A row, the same row again, and a further row of the same suite.
RepeatedThenNewRows ==
    <<<<<<"A">>, <<"c", "1">>, <<"t">>>>,
      <<<<"A">>, <<"c", "1">>, <<"t">>>>,
      <<<<"A">>, <<"c", "2">>, <<"t">>>>>>

RECURSIVE decimal(_)
decimal(n) ==
    LET d == <<"0", "1", "2", "3", "4", "5", "6", "7", "8", "9">>
    IN  IF n < 10 THEN <<d[n + 1]>> ELSE decimal(n \div 10) \o <<d[(n % 10) + 1]>>

\* n rows of suite A with case ids c1, c2, ..., the third with a blank title.
NumberedRows(n) ==
    [i \in 1..n |-> <<<<"A">>, <<"c">> \o decimal(i),
                      IF i = 3 THEN <<" ">> ELSE <<"t">>>>]

\* Well-formed uploads: every table up to MaxLen rows as CSV, one at the byte
\* cap, one with ragged rows, one with a repeated row followed by a new one,
\* and a worksheet.
GoodUploads ==
    {Upload(CsvName, 1, TRUE, Table(rows)) : rows \in SeqsUpTo(ImportRows, MaxLen)}
    \cup {Upload(CsvName, MAX_UPLOAD_BYTES, TRUE, OneRow),
          Upload(CsvName, 1, TRUE, Table(RaggedRows)),
          Upload(CsvName, 1, TRUE, Table(RepeatedThenNewRows)),
          Upload(XlsxName, 1, TRUE, OneRow)}

\* Uploads import_testplan rejects, one per check.
BadUploads ==
    {Upload(<<"p", ".", "t", "x", "t">>, 1, TRUE, OneRow),
     Upload(<<>>, 1, TRUE, OneRow),
     Upload(CsvName, 0, TRUE, <<>>),
     Upload(XlsxName, 0, TRUE, <<>>),
     Upload(CsvName, MAX_UPLOAD_BYTES + 1, TRUE, OneRow),
     Upload(CsvName, 1, FALSE, <<>>),
     Upload(CsvName, 1, TRUE, <<<<>>, <<<<"A">>, <<"c", "1">>, <<"t">>>>>>),
     Upload(CsvName, 1, TRUE, Table(Repeat(<<<<"A">>, <<>>, <<"t">>>>, MaxRows + 1))),
     Upload(XlsxName, 1, TRUE, <<>>),
     Upload(XlsxName, 1, TRUE, <<<<None, <<" ">>>>, <<<<"A">>, <<"t">>>>>>),
     Upload(XlsxName, 1, TRUE, Table(Repeat(<<<<"A">>, <<>>, <<"t">>>>, MaxRows + 1)))}

Uploads == GoodUploads \cup BadUploads

\* ------------------------------------------------------ the specification

\* After startup: create_all has made the two tables, empty.
Init ==
    /\ suites = {}
    /\ test_cases = {}
    /\ next_id = [suites |-> 1, test_cases |-> 1]
    /\ now = 0
    /\ req = [r \in Reqs |-> Idle]
    /\ resp = NoResponse
    /\ raw_rows = <<>>
    /\ norm = NotCalled

\* Imports served one after the other.
Next ==
    \E r \in Reqs :
        \/ \E u \in Uploads : Receive(r, u, TRUE)
        \/ ResolveSuite(r)
        \/ FlushSuite(r)
        \/ FlushTestCase(r)
        \/ Commit(r)
        \/ StoreFailure(r)

Spec == Init /\ [][Next]_vars

\* Imports that overlap: two requests, each in its own session.
ConcRows ==
    {<<<<"A">>, <<"c", "1">>, <<"t">>>>,
     <<<<"B">>, <<"c", "1">>, <<"t">>>>}

ConcUploads ==
    {Upload(CsvName, 1, TRUE, Table(rows)) : rows \in SeqsUpTo(ConcRows, MaxLen)}

NextConc ==
    \E r \in Reqs :
        \/ \E u \in ConcUploads : Receive(r, u, FALSE)
        \/ ResolveSuite(r)
        \/ FlushSuite(r)
        \/ FlushTestCase(r)
        \/ Commit(r)
        \/ StoreFailure(r)

SpecConc == Init /\ [][NextConc]_vars

\* Imports and queries: suite, case id, title, category and priority of the
\* imported rows; three cases of suite A in one file, one of suite B, and one
\* more case of suite A.
QueryHeader ==
    <<<<"S", "u", "i", "t", "e">>, <<"I", "D">>, <<"T", "i", "t", "l", "e">>,
      <<"A", "r", "e", "a">>, <<"P", "r", "i", "o">>>>

QueryUploads ==
    {Upload(CsvName, 1, TRUE,
        <<QueryHeader,
          <<<<"A">>, <<"c", "1">>, <<"a", "b">>, <<"w">>, <<"P", "0">>>>,
          <<<<"A">>, <<"c", "2">>, <<"B">>, <<"w">>, <<>>>>,
          <<<<"A">>, <<>>, <<"a">>, <<>>, <<"P", "0">>>>>>),
     Upload(CsvName, 1, TRUE,
        <<QueryHeader, <<<<"B">>, <<"c", "1">>, <<"a", "b">>, <<"w">>, <<"P", "0">>>>>>),
     Upload(CsvName, 1, TRUE,
        <<QueryHeader, <<<<"A">>, <<>>, <<"a">>, <<>>, <<"P", "0">>>>>>)}

\* category, priority, search
QueryFilters ==
    {<<None, None, None>>,
     <<<<"w">>, None, None>>,
     <<<<>>, <<"P", "0">>, None>>,
     <<None, None, <<"B">>>>,
     <<<<"w">>, <<"P", "0">>, <<"_", "b">>>>}

NextQuery ==
    \/ \E r \in Reqs :
           \/ \E u \in QueryUploads : Receive(r, u, TRUE)
           \/ ResolveSuite(r)
           \/ FlushSuite(r)
           \/ FlushTestCase(r)
           \/ Commit(r)
    \/ Tick
    \/ ListSuites
    \/ \E suite_id \in 1..next_id.suites, page \in 1..MaxPage,
          page_size \in 1..MaxPageSize, f \in QueryFilters :
           ListSuiteTestcases(suite_id, page, page_size, f[1], f[2], f[3])

SpecQuery == Init /\ [][NextQuery]_vars

\* ------------------------------------------- normalize_rows called alone

\* The most columns of an enumerated record
MaxCols == 2

\* The most records of an enumerated input
MaxRecs == 3

NormKeys == {<<"T", "i", "t", "l", "e">>, <<" ", "n", "a", "m", "e">>, <<"I", "D">>}

NormValues == {None, <<" ">>, <<"x">>, <<"y", " ">>}

\* Every dict of up to n items over NormKeys and NormValues, in every
\* insertion order.
Records(n) ==
    {rec \in SeqsUpTo(NormKeys \X NormValues, n) :
        \A i, j \in DOMAIN rec : i # j => rec[i][1] # rec[j][1]}

\* A titled record, a named one, one with neither, one whose blank name
\* column follows its title, and one with cells beyond the header.
SampleRecords ==
    {<<<<<<"T", "i", "t", "l", "e">>, <<"x">>>>>>,
     <<<<<<" ", "n", "a", "m", "e">>, <<"y", " ">>>>>>,
     <<<<<<"I", "D">>, <<"x">>>>>>,
     <<<<<<"T", "i", "t", "l", "e">>, <<"x">>>>, <<<<" ", "n", "a", "m", "e">>, <<" ">>>>>>,
     <<<<<<"T", "i", "t", "l", "e">>, <<"x">>>>, <<None, <<<<"y", " ">>>>>>>>}

NormInputs ==
    SeqsUpTo(SampleRecords, MaxRecs) \cup {<<rec>> : rec \in Records(MaxCols)}

InitNorm ==
    /\ suites = {}
    /\ test_cases = {}
    /\ next_id = [suites |-> 1, test_cases |-> 1]
    /\ now = 0
    /\ req = [r \in Reqs |-> Idle]
    /\ resp = NoResponse
    /\ raw_rows \in NormInputs
    /\ norm = NotCalled

Normalize ==
    /\ ~norm.returned
    /\ norm' = [returned |-> TRUE] @@ normalize_rows(raw_rows)
    /\ UNCHANGED <<suites, test_cases, next_id, now, req, resp, raw_rows>>

NextNorm == Normalize

SpecNorm == InitNorm /\ [][NextNorm]_vars

\* Imports of long batches, one at a time: the upload at the row cap has more
\* rows than the preview holds.
PreviewUploads ==
    {Upload(CsvName, 1, TRUE, Table(NumberedRows(MaxRows))),
     Upload(CsvName, 1, TRUE, Table(RaggedRows)),
     Upload(CsvName, 1, TRUE, Table(RepeatedThenNewRows)),
     Upload(CsvName, 1, TRUE, OneRow)}

NextPreview ==
    \E r \in Reqs :
        \/ \E u \in PreviewUploads : Receive(r, u, TRUE)
        \/ ResolveSuite(r)
        \/ FlushSuite(r)
        \/ FlushTestCase(r)
        \/ Commit(r)

SpecPreview == Init /\ [][NextPreview]_vars

\* Header resolution on its own: each record has a title column and one
\* column under the header in question; _map_headers is called on those
\* headers and normalize_rows on the records.

\* The most headers of an enumerated header row
MaxHeaders == 2

HeaderPool ==
    {<<"T", "e", "s", "t", " ", "A", "r", "e", "a">>,
     <<"t", "e", "s", "t", "a", "r", "e", "a">>,
     <<"T", "E", "S", "T", "_", "A", "R", "E", "A">>,
     <<"T", "i", "t", "l", "e">>,
     <<" ", "t", "i", "t", "l", "e", "\t">>,
     <<"S", "u", "i", "t", "e">>,
     <<"s", "u", "i", "t", "e", "_", "n", "a", "m", "e">>,
     <<"T", "-", "C", " ", "I", "D">>,
     <<"S", "t", "e", "p", "s", ":">>,
     <<"z", "z">>}

TitleCell == <<"t">>

HeaderCell == <<"v">>

header_record(h) ==
    dict_set(<<<<<<"T", "i", "t", "l", "e">>, TitleCell>>>>, h, HeaderCell)

\* list(raw.keys())[-1] of each record: the header in question
headers_of(rows) == [i \in DOMAIN rows |-> rows[i][Len(rows[i])][1]]

InitHeaders ==
    /\ suites = {}
    /\ test_cases = {}
    /\ next_id = [suites |-> 1, test_cases |-> 1]
    /\ now = 0
    /\ req = [r \in Reqs |-> Idle]
    /\ resp = NoResponse
    /\ raw_rows \in {[i \in DOMAIN hs |-> header_record(hs[i])] :
                       hs \in SeqsUpTo(HeaderPool, MaxHeaders)}
    /\ norm = NotCalled

ResolveHeaders ==
    /\ ~norm.returned
    /\ norm' = [returned |-> TRUE, mapping |-> map_headers(headers_of(raw_rows))]
                    @@ normalize_rows(raw_rows)
    /\ UNCHANGED <<suites, test_cases, next_id, now, req, resp, raw_rows>>

NextHeaders == ResolveHeaders

SpecHeaders == InitHeaders /\ [][NextHeaders]_vars

\* Steps splitting on its own: normalize_rows on one titled record whose
\* steps column holds a text over letters, blanks, CR and LF.

\* The longest enumerated steps text
MaxStepsLen == 4

StepsChars == {"a", " ", "\r", "\n"}

\* "1. Connect\r\n2. Verify\r\n\r\n"
StepsExample ==
    <<"1", ".", " ", "C", "o", "n", "n", "e", "c", "t", "\r", "\n",
      "2", ".", " ", "V", "e", "r", "i", "f", "y", "\r", "\n", "\r", "\n">>

StepsTexts == SeqsUpTo(StepsChars, MaxStepsLen) \cup {StepsExample, None}

steps_record(text) ==
    <<<<<<"T", "i", "t", "l", "e">>, TitleCell>>, <<<<"S", "t", "e", "p", "s">>, text>>>>

InitSteps ==
    /\ suites = {}
    /\ test_cases = {}
    /\ next_id = [suites |-> 1, test_cases |-> 1]
    /\ now = 0
    /\ req = [r \in Reqs |-> Idle]
    /\ resp = NoResponse
    /\ raw_rows \in {<<steps_record(text)>> : text \in StepsTexts}
    /\ norm = NotCalled

SpecSteps == InitSteps /\ [][NextNorm]_vars

\* The parsers on their own: parse_csv on the lines of a file and parse_xlsx
\* on the rows of a first worksheet, each under a row cap.

\* The most data rows of an enumerated file
MaxSheetRows == 3

\* The largest enumerated max_rows
MaxCap == 2

CsvHeaderLine == <<<<"T", "i", "t", "l", "e">>, <<"z", "z">>>>

\* A blank line, a line of two empty cells, a full line and a short one.
CsvLines == {<<>>, <<<<>>, <<>>>>, <<<<"x">>, <<"y">>>>, <<<<"x">>>>}

\* The second header cell is empty: its column is not read.
XlsxHeaderRow == <<<<"T", "i", "t", "l", "e">>, None, <<"z", "z">>>>

\* An empty row, a row of blanks, a row with a value only in the unread
\* column, a titled row, and a row with a value only under "zz".
XlsxRows ==
    {<<None, None, None>>,
     <<<<" ">>, None, <<>>>>,
     <<None, <<"y">>, None>>,
     <<<<"x">>, None, None>>,
     <<None, None, <<"z">>>>}

ParserInputs ==
    {[format |-> "csv", table |-> t] :
        t \in {<<>>} \cup {<<CsvHeaderLine>> \o rows : rows \in SeqsUpTo(CsvLines, MaxSheetRows)}}
    \cup
    {[format |-> "xlsx", table |-> t] :
        t \in {<<>>} \cup {<<XlsxHeaderRow>> \o rows : rows \in SeqsUpTo(XlsxRows, MaxSheetRows)}}

InitParse ==
    /\ suites = {}
    /\ test_cases = {}
    /\ next_id = [suites |-> 1, test_cases |-> 1]
    /\ now = 0
    /\ req = [r \in Reqs |-> Idle]
    /\ resp = NoResponse
    /\ raw_rows \in ParserInputs
    /\ norm = NotCalled

ParseCsv(max_rows) ==
    /\ ~norm.returned
    /\ raw_rows.format = "csv"
    /\ norm' = [returned |-> TRUE, max_rows |-> max_rows]
                    @@ parse_csv(TRUE, raw_rows.table, max_rows)
    /\ UNCHANGED <<suites, test_cases, next_id, now, req, resp, raw_rows>>

ParseXlsx(max_rows) ==
    /\ ~norm.returned
    /\ raw_rows.format = "xlsx"
    /\ norm' = [returned |-> TRUE, max_rows |-> max_rows]
                    @@ parse_xlsx(raw_rows.table, max_rows)
    /\ UNCHANGED <<suites, test_cases, next_id, now, req, resp, raw_rows>>

NextParse ==
    \E max_rows \in 1..MaxCap :
        \/ ParseCsv(max_rows)
        \/ ParseXlsx(max_rows)

SpecParse == InitParse /\ [][NextParse]_vars

\* ------------------------------------------------------------ the claims

IsCsv(u) == endswith(lower(u.filename), <<".", "c", "s", "v">>)

csv_data_rows(u) == SelectSeq(Tail(u.table), LAMBDA row : row # <<>>)

\* Every data row of the CSV became a normalized row with a case id.
EveryRowIdentified(r) ==
    /\ Len(req[r].normalized) = Len(csv_data_rows(req[r].upload))
    /\ \A i \in DOMAIN req[r].normalized : req[r].normalized[i].case_id # None

\* C1: when a CSV (here: one whose rows all carry a title and a case id) is
\* imported twice in a row, the second import reports testcases_created = 0,
\* suites_created = 0 and duplicates_skipped = the CSV's row count, and leaves
\* the stored suites and test cases as the first import left them.
C1_ReimportIsAllDuplicates ==
    (/\ req[1].pc = "done" /\ req[2].pc = "done"
     /\ req[1].upload = req[2].upload
     /\ IsCsv(req[2].upload)
     /\ EveryRowIdentified(2))
    => /\ req[2].response.testcases_created = 0
       /\ req[2].response.suites_created = 0
       /\ req[2].response.duplicates_skipped = Len(csv_data_rows(req[2].upload))
       /\ req[2].after = req[2].before

\* C2: when import_testplan has returned, the number of test cases it added
\* to the committed store equals the testcases_created it reported.
C2_CreatedRowsAreStored ==
    \A r \in Reqs :
        req[r].pc = "done" =>
            Cardinality(req[r].after.test_cases \ req[r].before.test_cases)
                = req[r].response.testcases_created

\* C3: a uniqueness violation never aborts the import: no IntegrityError
\* leaves import_testplan, every row the store refused is counted in
\* duplicates_skipped and every other processed row in testcases_created, the
\* loop goes on to the last row, and the request answers 200 with
\* testcases_created + duplicates_skipped = the number of normalized rows.
C3_DuplicateIsCountedNotFatal ==
    \A r \in Reqs :
        LET q == req[r]
            refused == {i \in DOMAIN q.log : q.log[i] # "inserted"}
        IN  /\ q.exc # "IntegrityError"
            /\ InLoop(r) =>
                /\ Len(q.log) = (IF q.pc = "commit" THEN Len(q.normalized) ELSE q.idx - 1)
                /\ q.duplicates_skipped = Cardinality(refused)
                /\ q.testcases_created = Len(q.log) - Cardinality(refused)
            /\ q.pc = "done" =>
                /\ q.status = 200
                /\ q.response.duplicates_skipped = Cardinality(refused)
                /\ q.response.testcases_created + q.response.duplicates_skipped
                       = Len(q.normalized)

\* A finished import whose first row hit uq_suite_case_id and which went on
\* to a later row.
C3_Witness ==
    \E r \in Reqs :
        /\ req[r].pc = "done"
        /\ Len(req[r].log) >= 2
        /\ req[r].log[1] = "uq_suite_case_id"

\* The status the claim gives each format defect, 0 for an upload with none.
FormatDefectStatus(u) ==
    IF ~(\E ext \in {<<".", "c", "s", "v">>, <<".", "x", "l", "s", "x">>} :
            endswith(lower(u.filename), ext)) THEN 400
    ELSE IF u.size = 0 THEN 400
    ELSE IF u.size > 10 * 1024 * 1024 THEN 413
    ELSE IF IsCsv(u) /\ ~u.utf8 THEN 400
    ELSE IF IsCsv(u) /\ (u.table = <<>> \/ u.table[1] = <<>>) THEN 400
    ELSE IF IsCsv(u) /\ Len(csv_data_rows(u)) > MaxRows THEN 413
    ELSE IF ~IsCsv(u) /\ u.table # <<>> /\ Len(u.table) - 1 > MaxRows THEN 413
    ELSE 0

\* C4: an upload with a format defect is rejected with the status of its
\* defect (extension 400, empty 400, over 10 MB 413, not UTF-8 400, no header
\* 400, over the row cap 413); a rejected request has performed no store
\* operation and leaves the store as it found it.
C4_FormatRejectionTouchesNothing ==
    \A r \in Reqs :
        /\ (req[r].pc \notin {"idle", "failed"} /\ FormatDefectStatus(req[r].upload) # 0)
               => (req[r].pc = "rejected" /\ req[r].status = FormatDefectStatus(req[r].upload))
        /\ req[r].pc = "rejected" =>
               /\ req[r].status \in {400, 413}
               /\ req[r].after = req[r].before
               /\ req[r].tx = NoTx
               /\ req[r].log = <<>>

\* The second request is rejected for its row count while the store holds
\* what the first import committed.
C4_Witness ==
    /\ req[2].pc = "rejected"
    /\ req[2].status = 413
    /\ req[2].upload.size = 1
    /\ test_cases # {}

\* C5: after an unexpected store failure the import has failed and the
\* committed store is what it was before the request.
C5_FailureLeavesStoreUnchanged ==
    \A r \in Reqs :
        req[r].pc = "failed" =>
            /\ req[r].status = 500
            /\ req[r].after = req[r].before
            /\ req[r].tx = NoTx

\* The first import failed after it had flushed a suite and a test case.
C5_Witness ==
    /\ req[1].pc = "failed"
    /\ req[1].exc = "OperationalError"
    /\ next_id.suites > 1
    /\ next_id.test_cases > 1
    /\ req[2].pc = "idle"

C6_Message(N) == "Row " \o ToString(N) \o ": missing title/name; skipped."

\* C6: normalize_rows emits only rows with a non-empty title, and every input
\* record yields either one emitted row or the one warning "Row N: missing
\* title/name; skipped." with N its 1-based position, so that
\* len(rows) + len(warnings) = len(input).
C6_EveryRecordEmittedOrWarned ==
    norm.returned =>
        LET skipped == {N \in DOMAIN raw_rows : C6_Message(N) \in Range(norm.warnings)}
        IN  /\ \A j \in DOMAIN norm.rows : strip(norm.rows[j].title) # <<>>
            /\ \A w \in DOMAIN norm.warnings :
                   \E N \in DOMAIN raw_rows : norm.warnings[w] = C6_Message(N)
            /\ Len(norm.warnings) = Cardinality(skipped)
            /\ Len(norm.rows) = Len(raw_rows) - Cardinality(skipped)
            /\ Len(norm.rows) + Len(norm.warnings) = Len(raw_rows)

\* Three records: the first emitted, the second skipped with "Row 2: ...".
C6_Witness ==
    /\ norm.returned
    /\ Len(raw_rows) = 3
    /\ Len(norm.rows) = 2
    /\ norm.warnings = <<C6_Message(2)>>

\* The non-blank values a record carries under columns named key.
ValuesUnder(rec, key) ==
    {strip(rec[i][2]) : i \in {j \in DOMAIN rec :
        /\ rec[j][1] # None
        /\ norm_key(rec[j][1]) = key
        /\ rec[j][2] # None
        /\ strip(rec[j][2]) # <<>>}}

\* The titles the claim allows a record: its title column's value or,
\* failing that, its name column's.
ClaimedTitles(rec) ==
    IF ValuesUnder(rec, "title") # {} THEN ValuesUnder(rec, "title")
    ELSE ValuesUnder(rec, "name")

\* C7: every record with a non-blank value under a title column or, failing
\* that, under a name column is emitted, with that value as its title,
\* whatever its other columns and their order.
C7_TitledRecordIsEmitted ==
    norm.returned =>
        \A N \in DOMAIN raw_rows :
            ClaimedTitles(raw_rows[N]) # {} =>
                LET pos == Cardinality({M \in 1..N : C6_Message(M) \notin Range(norm.warnings)})
                IN  /\ C6_Message(N) \notin Range(norm.warnings)
                    /\ pos \in DOMAIN norm.rows
                    /\ norm.rows[pos].title \in ClaimedTitles(raw_rows[N])

suite_names(r) == {req[r].normalized[i].suite_name : i \in DOMAIN req[r].normalized}

\* C8: when two imports overlap and both have rows for a suite name that no
\* stored suite has, neither fails on the suite-name conflict, and once both
\* have finished the store holds exactly one suite of that name.
C8_RacingImportsLeaveOneSuite ==
    /\ \A r \in Reqs : req[r].exc \notin {"IntegrityError", "NoResultFound"}
    /\ (req[1].pc = "done" /\ req[2].pc = "done" /\ req[2].overlaps) =>
           \A name \in suite_names(1) \cap suite_names(2) :
               (\A r \in Reqs : \A s \in req[r].before.suites : s.name # name)
                   => Cardinality({s \in suites : s.name = name}) = 1

\* t comes before u in "created_at descending, then id descending".
C9_Before(t, u) ==
    \/ t.created_at > u.created_at
    \/ t.created_at = u.created_at /\ t.id > u.id

\* C9: list_suite_testcases answers 404 when no suite has the id; otherwise
\* total is the number of the suite's test cases matching the filters,
\* whatever the page, and the items are positions (page-1)*page_size+1 ..
\* min(page*page_size, total) of the matches in created_at descending, then
\* id descending order.
C9_PageOfMatches ==
    resp.kind = "page" =>
        LET f        == resp.filters
            matching == {t \in test_cases :
                            tc_matches(t, f.suite_id, f.category, f.priority, f.search)}
            total    == Cardinality(matching)
            first    == (resp.page - 1) * resp.page_size + 1
            last     == Min(resp.page * resp.page_size, total)
            pos(t)   == 1 + Cardinality({u \in matching : C9_Before(u, t)})
        IN  IF \A s \in suites : s.id # f.suite_id
            THEN resp.status = 404
            ELSE /\ resp.status = 200
                 /\ resp.total = total
                 /\ Len(resp.items) = (IF last >= first THEN last - first + 1 ELSE 0)
                 /\ \A k \in DOMAIN resp.items :
                        \E t \in matching :
                            /\ pos(t) = first + k - 1
                            /\ resp.items[k].id = t.id
                            /\ resp.items[k].title = t.title

\* Three matches, page_size 2, page 2: one item and total 3 (the 25 / 20 / 2
\* of the specification, scaled).
C9_Witness ==
    /\ resp.kind = "page"
    /\ resp.status = 200
    /\ resp.total = 3
    /\ resp.page = 2
    /\ resp.page_size = 2
    /\ Len(resp.items) = 1

RECURSIVE C11_Alnum(_)
C11_Alnum(h) ==
    IF h = <<>> THEN ""
    ELSE (IF isalnum(Head(h)) THEN lower_ch(Head(h)) ELSE "") \o C11_Alnum(Tail(h))

C11_Form(h) == C11_Alnum(strip(h))

\* The standard fields of an emitted row that carry the header's cell.
C11_Held(row) ==
    {f \in STANDARD_FIELDS :
        IF f \in {"steps", "tags"} THEN row[f] = <<HeaderCell>> ELSE row[f] = HeaderCell}

\* The field _map_headers gives column i (from 1), as a set.
C11_Mapped(i) == IF (i - 1) \in DOMAIN norm.mapping THEN {norm.mapping[i - 1]} ELSE {}

\* C11: header resolution depends only on the header's trimmed, lowercased,
\* alphanumeric-only form: two headers with equal forms resolve to the same
\* field, a header whose form is a key of the synonym table resolves to that
\* key's field ("Test Area", "testarea", "TEST_AREA" to category), and
\* _map_headers and normalize_rows agree.
C11_HeaderResolutionByForm ==
    norm.returned =>
        LET hs == headers_of(raw_rows)
        IN  /\ Len(norm.rows) = Len(raw_rows)
            /\ \A i \in DOMAIN hs :
                   /\ C11_Form(hs[i]) \in DOMAIN HEADER_SYNONYMS =>
                          /\ C11_Mapped(i) = {HEADER_SYNONYMS[C11_Form(hs[i])]}
                          /\ C11_Held(norm.rows[i]) = {HEADER_SYNONYMS[C11_Form(hs[i])]}
                   /\ C11_Held(norm.rows[i]) = C11_Mapped(i)
                   /\ \A j \in DOMAIN hs :
                          C11_Form(hs[i]) = C11_Form(hs[j]) =>
                              /\ C11_Mapped(i) = C11_Mapped(j)
                              /\ C11_Held(norm.rows[i]) = C11_Held(norm.rows[j])

\* "Test Area" and "TEST_AREA" side by side, both resolved to category.
C11_Witness ==
    /\ norm.returned
    /\ headers_of(raw_rows) = <<<<"T", "e", "s", "t", " ", "A", "r", "e", "a">>,
                                <<"T", "E", "S", "T", "_", "A", "R", "E", "A">>>>
    /\ norm.mapping = (0 :> "category" @@ 1 :> "category")
    /\ norm.rows[1].category = HeaderCell
    /\ norm.rows[2].category = HeaderCell

\* The lines of a text, read left to right: CR LF, a lone CR and LF each end
\* the current line.
RECURSIVE C12_Scan(_, _, _)
C12_Scan(s, cur, out) ==
    IF s = <<>> THEN Append(out, cur)
    ELSE IF Len(s) >= 2 /\ s[1] = "\r" /\ s[2] = "\n"
         THEN C12_Scan(SubSeq(s, 3, Len(s)), <<>>, Append(out, cur))
    ELSE IF s[1] \in {"\r", "\n"}
         THEN C12_Scan(Tail(s), <<>>, Append(out, cur))
    ELSE C12_Scan(Tail(s), Append(cur, s[1]), out)

\* Those lines trimmed, the empty ones removed.
C12_Lines(text) ==
    LET lines == C12_Scan(text, <<>>, <<>>)
    IN  SelectSeq([i \in DOMAIN lines |-> strip(lines[i])], LAMBDA l : l # <<>>)

\* C12: the normalized steps of a steps text are its lines (CR LF, CR and LF
\* all being line breaks), each trimmed, the empty ones dropped, in order;
\* they are absent, never an empty list, when no non-empty line remains, so
\* emitted steps are a non-empty list of non-empty texts without CR or LF.
C12_StepsAreTrimmedLines ==
    norm.returned =>
        LET text  == raw_rows[1][2][2]
            steps == norm.rows[1].steps
        IN  /\ Len(norm.rows) = 1
            /\ steps # <<>>
            /\ (text = None \/ C12_Lines(text) = <<>>) => steps = NoList
            /\ (text # None /\ C12_Lines(text) # <<>>) => steps = C12_Lines(text)
            /\ steps # NoList =>
                   \A i \in DOMAIN steps :
                       /\ steps[i] # <<>>
                       /\ \A c \in DOMAIN steps[i] : steps[i][c] \notin {"\r", "\n"}

\* "1. Connect\r\n2. Verify\r\n\r\n" gives ["1. Connect", "2. Verify"].
C12_Witness ==
    /\ norm.returned
    /\ raw_rows[1][2][2] = StepsExample
    /\ norm.rows[1].steps = <<SubSeq(StepsExample, 1, 10), SubSeq(StepsExample, 13, 21)>>

\* C13: when import_testplan has returned 200, the committed store holds
\* exactly one suite for every suite_name among the normalized rows, and
\* suites_created is the number of those names no suite had before the
\* import, whatever uniqueness violations the batch met.
C13_OneSuitePerBatchName ==
    \A r \in Reqs :
        req[r].pc = "done" =>
            /\ \A name \in suite_names(r) :
                   Cardinality({s \in req[r].after.suites : s.name = name}) = 1
            /\ req[r].response.suites_created =
                   Cardinality({name \in suite_names(r) :
                                   \A s \in req[r].before.suites : s.name # name})

\* Row i of the batch of request r repeats a stored test case or one the
\* batch placed before it: same suite, same case_id, and the case_id present.
C14_IsRepeat(r, i) ==
    LET q   == req[r]
        row == q.normalized[i]
    IN  /\ row.case_id # None
        /\ \/ \E s \in q.before.suites, t \in q.before.test_cases :
                  s.name = row.suite_name /\ t.suite_id = s.id /\ t.case_id = row.case_id
           \/ \E j \in 1..(i - 1) :
                  /\ q.log[j] = "inserted"
                  /\ q.normalized[j].suite_name = row.suite_name
                  /\ q.normalized[j].case_id = row.case_id

\* C14: a row is counted in duplicates_skipped only when a test case with
\* its suite and its non-absent case_id is already stored or was placed
\* earlier in the batch, never for another reason such as its suite having
\* been discarded by a rollback; and a counted row adds no test case.
C14_OnlyRepeatsAreCountedDuplicates ==
    \A r \in Reqs :
        /\ \A i \in DOMAIN req[r].log :
               req[r].log[i] # "inserted" => C14_IsRepeat(r, i)
        /\ req[r].pc = "done" =>
               /\ req[r].response.duplicates_skipped
                      = Cardinality({i \in DOMAIN req[r].log : req[r].log[i] # "inserted"})
               /\ Cardinality(req[r].after.test_cases \ req[r].before.test_cases)
                      <= Cardinality({i \in DOMAIN req[r].log : req[r].log[i] = "inserted"})

\* What normalize_rows makes of one record alone: one row or one warning.
C15_Alone(rec) == normalize_rows(<<rec>>)

\* C15: the emitted rows are the normalizations of the records that were
\* not excluded, in input order, and the warnings name the excluded records
\* in increasing row index; the preview of import_testplan is the first
\* min(10, n) of the n emitted rows, stored or skipped alike.
C15_OrderKeptAndPreviewIsPrefix ==
    \A r \in Reqs :
        req[r].pc = "done" =>
            LET q        == req[r]
                recs     == parse_upload(q.upload, MaxRows).rows
                kept     == {N \in DOMAIN recs : C15_Alone(recs[N]).rows # <<>>}
                dropped  == DOMAIN recs \ kept
                n        == Len(q.normalized)
                preview  == q.response.preview
            IN  /\ n = Cardinality(kept)
                /\ \A N \in kept :
                       q.normalized[Cardinality({M \in kept : M <= N})]
                           = C15_Alone(recs[N]).rows[1]
                /\ Len(q.response.warnings) = Cardinality(dropped)
                /\ \A N \in dropped :
                       q.response.warnings[Cardinality({M \in dropped : M <= N})]
                           = C6_Message(N)
                /\ Len(preview) = (IF n < 10 THEN n ELSE 10)
                /\ \A i \in DOMAIN preview : preview[i] = q.normalized[i]

\* Twelve records, the third excluded: eleven rows emitted, the first of them
\* skipped as a duplicate and later ones stored, ten of them in the preview.
C15_Witness ==
    \E r \in Reqs :
        /\ req[r].pc = "done"
        /\ Len(req[r].normalized) = 11
        /\ req[r].response.warnings = <<C6_Message(3)>>
        /\ Len(req[r].response.preview) = 10
        /\ req[r].response.preview[3].case_id = <<"c", "4">>
        /\ req[r].log[1] = "uq_suite_case_id"
        /\ req[r].log[2] = "inserted"

\* The rows a reader yields after the header: csv.DictReader passes over
\* blank lines, the worksheet yields every row.
C16_DataRows ==
    IF raw_rows.format = "csv"
    THEN SelectSeq(Tail(raw_rows.table), LAMBDA line : line # <<>>)
    ELSE Tail(raw_rows.table)

\* The columns of the header row that have a name.
C16_Columns == {c \in DOMAIN raw_rows.table[1] :
                   raw_rows.table[1][c] # None /\ strip(raw_rows.table[1][c]) # <<>>}

\* The row has nothing but blanks in those columns.
C16_Blank(row) ==
    \A c \in C16_Columns :
        c <= Len(row) => (row[c] = None \/ strip(row[c]) = <<>>)

\* The data rows that become records.
C16_Emitted ==
    IF raw_rows.format = "csv" THEN C16_DataRows
    ELSE SelectSeq(C16_DataRows, LAMBDA row : ~C16_Blank(row))

\* C16: parse_csv and parse_xlsx never return more than max_rows records;
\* with at most max_rows data rows (exactly max_rows included) they return
\* every record, with more they fail with 413; and parse_xlsx emits no
\* record for a row that is blank in every named column.
C16_RowCapEnforced ==
    (norm.returned /\ raw_rows.table # <<>>) =>
        /\ Len(norm.rows) <= norm.max_rows
        /\ Len(C16_DataRows) > norm.max_rows => (norm.status = 413 /\ norm.rows = <<>>)
        /\ Len(C16_DataRows) <= norm.max_rows =>
               /\ norm.status = 200
               /\ Len(norm.rows) = Len(C16_Emitted)
               /\ \A i \in DOMAIN norm.rows :
                      \A c \in C16_Columns :
                          dict_get(norm.rows[i], raw_rows.table[1][c])
                              = (IF c <= Len(C16_Emitted[i]) THEN C16_Emitted[i][c] ELSE None)
        /\ raw_rows.format = "xlsx" =>
               \A i \in DOMAIN norm.rows :
                   \E k \in DOMAIN norm.rows[i] :
                       norm.rows[i][k][2] # None /\ strip(norm.rows[i][k][2]) # <<>>

\* A worksheet with exactly max_rows data rows, one of them blank: accepted,
\* and only the other row is a record.
C16_Witness ==
    /\ norm.returned
    /\ raw_rows.format = "xlsx"
    /\ norm.max_rows = 2
    /\ raw_rows.table # <<>>
    /\ Tail(raw_rows.table) = <<<<None, <<"y">>, None>>, <<None, None, <<"z">>>>>>
    /\ norm.status = 200
    /\ Len(norm.rows) = 1

====
